---- MODULE Spec2Model ----
(***************************************************************************)
(* A model of psi::ERISieve (psi4/libmints/sieve.cc): the Schwarz bound    *)
(* builder integrals(), the CSAM bound builder csam_integrals(), the       *)
(* significance index set_sieve() and the quadruple predicate              *)
(* shell_significant_csam().                                               *)
(*                                                                         *)
(* Doubles are modelled exactly: a double is a record [k, n, d] that is a  *)
(* finite rational n/d in lowest terms (k = "fin"), a signed infinity      *)
(* (k = "inf", n = +1 or -1) or a NaN (k = "nan").  Division by zero,      *)
(* comparisons with NaN and std::max follow IEEE-754 / the C++ library.    *)
(* Values that the code only ever stores as results of std::abs of an      *)
(* integral buffer entry are kept as integers.  Rounding is not modelled.  *)
(***************************************************************************)
EXTENDS Integers, Sequences, FiniteSets, TLC

\* ------------------------------------------------------------- bounds
\* Largest number of shells of a basis set.
MaxShells == 2
\* The largest threshold passed to the constructor and to set_sieve.
MaxTau == 2

\* Function counts a shell may have.
NFunctions == {1, 2}
\* The thresholds, one of them negative.
Taus == (0 - 1)..MaxTau
\* The diagonal integrals (pp|pp) of the evaluator are r * r for a root r.
Roots == {0, 1, 2}
\* Values the evaluator returns for an exchange element (pq|pq); the negative one
\* is what std::abs is applied for.
EriValues == {0 - 1} \cup {r * r : r \in Roots}
\* The basis sets: the function count of each shell, shell 0 first; basis sets
\* of at most three functions.
RECURSIVE FunctionIndex(_, _)
FunctionIndex(basis, S) ==
    IF S = 0 THEN 0 ELSE FunctionIndex(basis, S - 1) + basis[S]

Bases ==
    {b \in UNION {[1..n -> NFunctions] : n \in 1..MaxShells} :
        FunctionIndex(b, Len(b)) <= 3}

\* ------------------------------------------------------------- doubles
Abs(x) == IF x < 0 THEN 0 - x ELSE x

Sign(x) == IF x < 0 THEN 0 - 1 ELSE IF x > 0 THEN 1 ELSE 0

RECURSIVE GCD(_, _)
GCD(a, b) == IF b = 0 THEN a ELSE GCD(b, a % b)

Fin(n, d) ==
    LET g == GCD(Abs(n), d)
    IN  [k |-> "fin", n |-> n \div g, d |-> d \div g]

FromInt(n) == [k |-> "fin", n |-> n, d |-> 1]

Inf(s) == [k |-> "inf", n |-> s, d |-> 1]

NaN == [k |-> "nan", n |-> 0, d |-> 1]

\* a / b for finite a and b: x/0 is an infinity, 0/0 is a NaN.
DDiv(a, b) ==
    IF b.n = 0
    THEN IF a.n = 0 THEN NaN ELSE Inf(Sign(a.n))
    ELSE Fin(a.n * b.d * Sign(b.n), a.d * Abs(b.n))

DMul(a, b) ==
    IF a.k = "nan" \/ b.k = "nan" THEN NaN
    ELSE IF a.k = "inf" \/ b.k = "inf"
         THEN IF a.n = 0 \/ b.n = 0 THEN NaN ELSE Inf(Sign(a.n) * Sign(b.n))
         ELSE Fin(a.n * b.n, a.d * b.d)

DAbs(a) == [a EXCEPT !.n = Abs(a.n)]

\* a < b; false as soon as one side is a NaN.
DLess(a, b) ==
    /\ a.k # "nan"
    /\ b.k # "nan"
    /\ CASE a.k = "fin" /\ b.k = "fin" -> a.n * b.d < b.n * a.d
         [] a.k = "inf" /\ b.k = "inf" -> a.n < b.n
         [] a.k = "inf" /\ b.k = "fin" -> a.n < 0
         [] OTHER -> b.n > 0

\* a >= b; false as soon as one side is a NaN.
DGeq(a, b) == a.k # "nan" /\ b.k # "nan" /\ ~DLess(a, b)

\* std::max(a, b) is (a < b) ? b : a.
DMax(a, b) == IF DLess(a, b) THEN b ELSE a

\* std::sqrt of a perfect square.
ISqrt(n) == CHOOSE r \in 0..n : r * r = n

IMax(a, b) == IF a < b THEN b ELSE a

IMin(a, b) == IF b < a THEN b ELSE a

\* ------------------------------------------------------------- vectors
\* A std::vector of n elements, indexed from 0.
Vec(n, v) == [i \in 0..(n - 1) |-> v]

\* v.resize(n): the elements kept, new ones value-initialised.
Resize(v, n, fill) == [i \in 0..(n - 1) |-> IF i \in DOMAIN v THEN v[i] ELSE fill]

Store(v, i, x) == IF i \in DOMAIN v THEN [v EXCEPT ![i] = x] ELSE v

\* The entries of a pair list, as a set.
Elems(s) == {s[i] : i \in 1..Len(s)}

VARIABLES
    primary_,                    \* the basis set: the function count of each shell
    eri_diagonal,                \* the evaluator: (pp|pp) = eri_diagonal[p]^2
    do_csam_,
    pc,                          \* where the constructor is, "ready" once it returned
    P, Q,                        \* the loop indices of integrals() / csam_integrals()
    nshell_, nbf_,
    sieve_, sieve2_, sieve_over_max_, sieve2_over_max_,
    max_,
    shell_pair_values_,          \* D, row-major nshell_ x nshell_
    function_pair_values_,       \* F, row-major nbf_ x nbf_
    shell_pairs_, function_pairs_,
    shell_pairs_reverse_, function_pairs_reverse_,
    shell_to_shell_, function_to_function_,
    function_sqrt_,
    shell_pair_exchange_values_, \* X, row-major nshell_ x nshell_
    sqrt_writes,                 \* per function, the iterations <<P, Q>> that wrote function_sqrt_
    sqrt_early_reads,            \* reads <<f, P, Q>> of function_sqrt_[f] made before any write
    exchange_writes              \* the indices of shell_pair_exchange_values_ assigned so far

basis_vars == <<primary_, eri_diagonal, do_csam_>>

bound_vars == <<nshell_, nbf_, max_, shell_pair_values_, function_pair_values_>>

csam_vars == <<function_sqrt_, shell_pair_exchange_values_, sqrt_writes,
               sqrt_early_reads, exchange_writes>>

sieve_vars == <<sieve_, sieve2_, sieve_over_max_, sieve2_over_max_,
                shell_pairs_, function_pairs_, shell_pairs_reverse_,
                function_pairs_reverse_, shell_to_shell_, function_to_function_>>

vars == <<basis_vars, pc, P, Q, bound_vars, csam_vars, sieve_vars>>

\* ------------------------------------------------------------- the basis
\* primary_->nshell()
PrimaryNShell == Len(primary_)

\* primary_->shell(S).nfunction()
ShellNFunction(S) == primary_[S + 1]

\* primary_->shell(S).function_index(): the shells' ranges are contiguous.
ShellFunctionIndex(S) == FunctionIndex(primary_, S)

\* primary_->nbf()
PrimaryNbf == FunctionIndex(primary_, Len(primary_))

\* The shell a function belongs to.
ShellOf(f) ==
    CHOOSE S \in 0..(PrimaryNShell - 1) :
        ShellFunctionIndex(S) <= f /\ f < ShellFunctionIndex(S) + ShellNFunction(S)

EmptyVec == Vec(0, 0)

Init ==
    /\ primary_ \in Bases
    /\ eri_diagonal \in [0..(FunctionIndex(primary_, Len(primary_)) - 1) -> Roots]
    /\ do_csam_ \in BOOLEAN
    /\ sieve_ \in Taus
    /\ pc = "integrals_begin"
    /\ P = 0
    /\ Q = 0
    /\ nshell_ = 0
    /\ nbf_ = 0
    /\ sieve2_ = 0
    /\ sieve_over_max_ = FromInt(0)
    /\ sieve2_over_max_ = FromInt(0)
    /\ max_ = 0
    /\ shell_pair_values_ = EmptyVec
    /\ function_pair_values_ = EmptyVec
    /\ shell_pairs_ = <<>>
    /\ function_pairs_ = <<>>
    /\ shell_pairs_reverse_ = EmptyVec
    /\ function_pairs_reverse_ = EmptyVec
    /\ shell_to_shell_ = EmptyVec
    /\ function_to_function_ = EmptyVec
    /\ function_sqrt_ = EmptyVec
    /\ shell_pair_exchange_values_ = EmptyVec
    /\ sqrt_writes = EmptyVec
    /\ sqrt_early_reads = {}
    /\ exchange_writes = {}

\* ------------------------------------------------------------- integrals()
\* The evaluator's answers to compute_shell(S, T, S, T): the exchange elements
\* (pq|pq), p in S, q in T.  (pp|pp) is the function's diagonal integral and,
\* inside one shell, (pq|pq) = (qp|qp); the other elements are any of EriValues,
\* so that the bound matrices range over all small symmetric matrices.
ExchangeBlocks(S, T) ==
    LET nS == ShellNFunction(S)
        nT == ShellNFunction(T)
        oS == ShellFunctionIndex(S)
    IN  {g \in [(0..(nS - 1)) \X (0..(nT - 1)) -> EriValues] :
            S = T => \A p \in 0..(nS - 1) :
                        /\ g[<<p, p>>] = eri_diagonal[oS + p] * eri_diagonal[oS + p]
                        /\ \A q \in 0..(nS - 1) : g[<<p, q>>] = g[<<q, p>>]}

\* eri->buffer() after compute_shell(S, T, S, T): row-major over the four function
\* ranges nS x nT x nS x nT; only the elements (pq|pq) are given, the rest is 0.
ExchangeBuffer(g, nS, nT) ==
    [i \in 0..(nS * nT * nS * nT - 1) |->
        LET a == i \div (nT * nS * nT)
            b == (i \div (nS * nT)) % nT
            c == (i \div nT) % nS
            d == i % nT
        IN  IF a = c /\ b = d THEN g[<<a, b>>] ELSE 0]

\* std::abs(buffer[...]) of line 226.
IntegralsElement(x) == Abs(x)

\* The scan of lines 223-228, k = p * nQ + q.
RECURSIVE IntegralsMaxVal(_, _, _, _, _)
IntegralsMaxVal(buffer, nP, nQ, k, max_val) ==
    IF k >= nP * nQ THEN max_val
    ELSE LET p == k \div nQ
             q == k % nQ
         IN  IntegralsMaxVal(buffer, nP, nQ, k + 1,
                 IMax(max_val,
                      IntegralsElement(buffer[p * (nQ * nP * nQ + nQ) + q * (nP * nQ + 1)])))

\* max_ = std::max(max_, max_val)
IntegralsMax_Overwrite(m, max_val) == max_val

IntegralsMax(m, max_val) == IMax(m, max_val)

\* shell_pair_values_[P * nshell_ + Q] = shell_pair_values_[Q * nshell_ + P] = max_val
IntegralsStoreShell_OneSided(values, n, S, T, max_val) ==
    Store(values, S * n + T, max_val)

IntegralsStoreShell(values, n, S, T, max_val) ==
    Store(Store(values, T * n + S, max_val), S * n + T, max_val)

\* Lines 231-236: the block of F of shells S and T, both triangles.
IntegralsStoreFunctions(values, n, S, T, max_val) ==
    LET nS == ShellNFunction(S)
        nT == ShellNFunction(T)
        oS == ShellFunctionIndex(S)
        oT == ShellFunctionIndex(T)
    IN  [i \in DOMAIN values |->
            IF \E p \in 0..(nS - 1), q \in 0..(nT - 1) :
                   i = (p + oS) * n + (q + oT) \/ i = (q + oT) * n + (p + oS)
            THEN max_val
            ELSE values[i]]

\* Lines 200-213.
IntegralsBegin ==
    /\ pc = "integrals_begin"
    /\ nbf_' = PrimaryNbf
    /\ nshell_' = PrimaryNShell
    /\ function_pair_values_' = Vec(PrimaryNbf * PrimaryNbf, 0)
    /\ shell_pair_values_' = Vec(PrimaryNShell * PrimaryNShell, 0)
    /\ max_' = 0
    /\ P' = 0
    /\ Q' = 0
    /\ pc' = "integrals"
    /\ UNCHANGED <<basis_vars, csam_vars, sieve_vars>>

\* One pass of the loop body of lines 215-238, for the shell pair (P, Q).
IntegralsIter ==
    /\ pc = "integrals"
    /\ \E g \in ExchangeBlocks(P, Q) :
          \E max_val \in {IntegralsMaxVal(ExchangeBuffer(g, ShellNFunction(P), ShellNFunction(Q)),
                                          ShellNFunction(P), ShellNFunction(Q), 0, 0)} :
              /\ max_' = IntegralsMax(max_, max_val)
              /\ shell_pair_values_' =
                     IntegralsStoreShell(shell_pair_values_, nshell_, P, Q, max_val)
              /\ function_pair_values_' =
                     IntegralsStoreFunctions(function_pair_values_, nbf_, P, Q, max_val)
    /\ IF Q + 1 <= P
       THEN /\ Q' = Q + 1
            /\ UNCHANGED <<P, pc>>
       ELSE IF P + 1 < nshell_
            THEN /\ P' = P + 1
                 /\ Q' = 0
                 /\ UNCHANGED pc
            ELSE /\ P' = 0
                 /\ Q' = 0
                 /\ pc' = IF do_csam_ THEN "csam_begin" ELSE "set_sieve"
    /\ UNCHANGED <<basis_vars, nshell_, nbf_, csam_vars, sieve_vars>>

\* ------------------------------------------------------------- csam_integrals()
\* Values the evaluator returns for a Coulomb element (pp|qq), p # q, of two
\* functions with diagonal roots rp and rq: |(pp|qq)| <= sqrt((pp|pp) (qq|qq)).
CoulombValues(rp, rq) ==
    {v \in {0 - 1, 0, 1, rp * rq} : Abs(v) <= rp * rq}

\* The evaluator's answers to compute_shell(S, S, T, T): the elements (pp|qq).
CoulombBlocks(S, T) ==
    LET nS == ShellNFunction(S)
        nT == ShellNFunction(T)
        oS == ShellFunctionIndex(S)
        oT == ShellFunctionIndex(T)
    IN  {e \in [(0..(nS - 1)) \X (0..(nT - 1)) -> {0 - 1} \cup {r * t : r \in Roots, t \in Roots}] :
            \A p \in 0..(nS - 1), q \in 0..(nT - 1) :
                IF S = T /\ p = q
                THEN e[<<p, q>>] = eri_diagonal[oS + p] * eri_diagonal[oS + p]
                ELSE /\ e[<<p, q>>] \in
                            CoulombValues(eri_diagonal[oS + p], eri_diagonal[oT + q])
                     /\ S = T => e[<<p, q>>] = e[<<q, p>>]}

\* eri->buffer() after compute_shell(S, S, T, T): row-major nS x nS x nT x nT.
CoulombBuffer(e, nS, nT) ==
    [i \in 0..(nS * nS * nT * nT - 1) |->
        LET a == i \div (nS * nT * nT)
            b == (i \div (nT * nT)) % nS
            c == (i \div nT) % nT
            d == i % nT
        IN  IF a = b /\ c = d THEN e[<<a, c>>] ELSE 0]

\* for (int Q = P; Q >= 0; Q--)
CsamFirstQ_Zero(S) == 0

CsamFirstQ(S) == S

\* Lines 330-335: the square roots of the diagonal of shell S.
RECURSIVE CsamSqrt(_, _, _, _, _)
CsamSqrt(sqrts, buffer, nP, oP, p) ==
    IF p >= nP THEN sqrts
    ELSE CsamSqrt(
             Store(sqrts, oP + p,
                   ISqrt(Abs(buffer[p * (nP * nP * nP + nP) + p * (nP * nP + 1)]))),
             buffer, nP, oP, p + 1)

\* Lines 338-344, k = p * nQ + q.
RECURSIVE CsamMaxVal(_, _, _, _, _, _, _, _)
CsamMaxVal(sqrts, buffer, nP, nQ, oP, oQ, k, max_val) ==
    IF k >= nP * nQ THEN max_val
    ELSE LET p == k \div nQ
             q == k % nQ
         IN  CsamMaxVal(sqrts, buffer, nP, nQ, oP, oQ, k + 1,
                 DMax(max_val,
                      DDiv(FromInt(Abs(buffer[p * nQ * nQ * (nP + 1) + q * (nQ + 1)])),
                           FromInt(sqrts[p + oP] * sqrts[q + oQ]))))

\* shell_pair_exchange_values_[P * nshell_ + Q] =
\*     shell_pair_exchange_values_[Q * nshell_ + P] = max_val
CsamStore_OneSided(values, n, S, T, max_val) == Store(values, S * n + T, max_val)

CsamStore(values, n, S, T, max_val) ==
    Store(Store(values, T * n + S, max_val), S * n + T, max_val)

CsamStoreIndices(n, S, T) == DOMAIN CsamStore(Vec(n * n, 0), n, S, T, 1) \cap
    {i \in 0..(n * n - 1) : CsamStore(Vec(n * n, 0), n, S, T, 1)[i] = 1}

\* Lines 312-319.
CsamBegin ==
    /\ pc = "csam_begin"
    /\ function_sqrt_' = Vec(nbf_, 0)
    /\ shell_pair_exchange_values_' = Vec(nshell_ * nshell_, FromInt(0))
    /\ sqrt_writes' = Vec(nbf_, <<>>)
    /\ sqrt_early_reads' = {}
    /\ exchange_writes' = {}
    /\ P' = 0
    /\ Q' = CsamFirstQ(0)
    /\ pc' = "csam"
    /\ UNCHANGED <<basis_vars, bound_vars, sieve_vars>>

\* One pass of the loop body of lines 321-347, for the shell pair (P, Q).
CsamIter ==
    /\ pc = "csam"
    /\ \E e \in CoulombBlocks(P, Q) :
          LET nP == ShellNFunction(P)
              nQ == ShellNFunction(Q)
              oP == ShellFunctionIndex(P)
              oQ == ShellFunctionIndex(Q)
              buffer == CoulombBuffer(e, nP, nQ)
              written == IF Q = P
                         THEN [f \in DOMAIN sqrt_writes |->
                                  IF oP <= f /\ f < oP + nP
                                  THEN Append(sqrt_writes[f], <<P, Q>>)
                                  ELSE sqrt_writes[f]]
                         ELSE sqrt_writes
              read == {p + oP : p \in 0..(nP - 1)} \cup {q + oQ : q \in 0..(nQ - 1)}
          IN  \E sqrts \in {IF Q = P
                             THEN CsamSqrt(function_sqrt_, buffer, nP, oP, 0)
                             ELSE function_sqrt_} :
                  /\ function_sqrt_' = sqrts
                  /\ sqrt_writes' = written
                  /\ sqrt_early_reads' = sqrt_early_reads \cup
                         {<<f, P, Q>> : f \in {x \in read : written[x] = <<>>}}
                  /\ shell_pair_exchange_values_' =
                         CsamStore(shell_pair_exchange_values_, nshell_, P, Q,
                                   CsamMaxVal(sqrts, buffer, nP, nQ, oP, oQ, 0, FromInt(0)))
                  /\ exchange_writes' = exchange_writes \cup CsamStoreIndices(nshell_, P, Q)
    /\ IF Q - 1 >= 0
       THEN /\ Q' = Q - 1
            /\ UNCHANGED <<P, pc>>
       ELSE IF P + 1 < nshell_
            THEN /\ P' = P + 1
                 /\ Q' = CsamFirstQ(P + 1)
                 /\ UNCHANGED pc
            ELSE /\ P' = 0
                 /\ Q' = 0
                 /\ pc' = "set_sieve"
    /\ UNCHANGED <<basis_vars, bound_vars, sieve_vars>>

\* ------------------------------------------------------------- set_sieve()
\* shell_pair_values_[...] >= sieve2_over_max_ of lines 82, 96, 113 and 121.
Significant_Flipped(value, cutoff) == DGeq(cutoff, FromInt(value))

Significant(value, cutoff) == DGeq(FromInt(value), cutoff)

\* The sentinel of an absent pair.
ReverseAbsent == -1

\* shell_pairs_.clear() / function_pairs_.clear()
ClearPairs_Keep(pairs) == pairs

ClearPairs(pairs) == <<>>

\* The last NU of the inner loops of lines 81 and 95 (NU <= MU).
PairLastNU_Square(MU, n) == n - 1

PairLastNU(MU, n) == MU

\* offset++ of lines 85 and 99.
NextOffset_Stuck(offset) == offset

NextOffset(offset) == offset + 1

\* The loops of lines 78-90 and 92-104 over the n x n matrix values; acc holds
\* the pair list, the reverse map, offset and the packed index MUNU.
RECURSIVE PairLoop(_, _, _, _, _, _)
PairLoop(values, n, cutoff, MU, NU, acc) ==
    IF MU >= n THEN acc
    ELSE IF NU > PairLastNU(MU, n) THEN PairLoop(values, n, cutoff, MU + 1, 0, acc)
    ELSE PairLoop(values, n, cutoff, MU, NU + 1,
             IF Significant(values[MU * n + NU], cutoff)
             THEN [pairs |-> Append(acc.pairs, <<MU, NU>>),
                   reverse |-> Store(acc.reverse, acc.MUNU, acc.offset),
                   offset |-> NextOffset(acc.offset),
                   MUNU |-> acc.MUNU + 1]
             ELSE [pairs |-> acc.pairs,
                   reverse |-> Store(acc.reverse, acc.MUNU, ReverseAbsent),
                   offset |-> acc.offset,
                   MUNU |-> acc.MUNU + 1])

\* Lines 73-104 for one of the two matrices: the list and its reverse map.
SignificantPairs(values, n, cutoff, old_pairs, old_reverse) ==
    PairLoop(values, n, cutoff, 0, 0,
             [pairs |-> ClearPairs(old_pairs),
              reverse |-> Resize(old_reverse, (n * (n + 1)) \div 2, 0),
              offset |-> 0,
              MUNU |-> 0])

\* The last NU of the inner loops of lines 112 and 120 (NU < nshell_).
AdjacencyLastNU_Triangle(MU, n) == MU

AdjacencyLastNU(MU, n) == n - 1

\* The loops of lines 111-117 and 119-125.
RECURSIVE AdjacencyLoop(_, _, _, _, _, _)
AdjacencyLoop(values, n, cutoff, MU, NU, lists) ==
    IF MU >= n THEN lists
    ELSE IF NU > AdjacencyLastNU(MU, n)
         THEN AdjacencyLoop(values, n, cutoff, MU + 1, 0, lists)
    ELSE AdjacencyLoop(values, n, cutoff, MU, NU + 1,
             IF Significant(values[MU * n + NU], cutoff)
             THEN Store(lists, MU, Append(lists[MU], NU))
             ELSE lists)

\* Lines 106-125 for one of the two matrices: clear(), resize(n), the loops.
Adjacency(values, n, cutoff) ==
    AdjacencyLoop(values, n, cutoff, 0, 0, Vec(n, <<>>))

\* What set_sieve(sieve) computes, lines 67-125, from the object's state.
SetSieveResult(sieve) ==
    LET s2 == sieve * sieve
        cutoff == DDiv(FromInt(s2), FromInt(max_))
        shells == SignificantPairs(shell_pair_values_, nshell_, cutoff,
                                   shell_pairs_, shell_pairs_reverse_)
        functions == SignificantPairs(function_pair_values_, nbf_, cutoff,
                                      function_pairs_, function_pairs_reverse_)
    IN  [sieve |-> sieve,
         sieve2 |-> s2,
         sieve_over_max |-> DDiv(FromInt(sieve), FromInt(max_)),
         sieve2_over_max |-> cutoff,
         shell_pairs |-> shells.pairs,
         shell_pairs_reverse |-> shells.reverse,
         function_pairs |-> functions.pairs,
         function_pairs_reverse |-> functions.reverse,
         shell_to_shell |-> Adjacency(shell_pair_values_, nshell_, cutoff),
         function_to_function |-> Adjacency(function_pair_values_, nbf_, cutoff)]

\* The threshold-derived state, as SetSieveResult lays it out.
SieveState ==
    [sieve |-> sieve_,
     sieve2 |-> sieve2_,
     sieve_over_max |-> sieve_over_max_,
     sieve2_over_max |-> sieve2_over_max_,
     shell_pairs |-> shell_pairs_,
     shell_pairs_reverse |-> shell_pairs_reverse_,
     function_pairs |-> function_pairs_,
     function_pairs_reverse |-> function_pairs_reverse_,
     shell_to_shell |-> shell_to_shell_,
     function_to_function |-> function_to_function_]

\* set_sieve(sieve), lines 67-125.
set_sieve(sieve) ==
    \E r \in {SetSieveResult(sieve)} :
        /\ sieve_' = r.sieve
        /\ sieve2_' = r.sieve2
        /\ sieve_over_max_' = r.sieve_over_max
        /\ sieve2_over_max_' = r.sieve2_over_max
        /\ shell_pairs_' = r.shell_pairs
        /\ shell_pairs_reverse_' = r.shell_pairs_reverse
        /\ function_pairs_' = r.function_pairs
        /\ function_pairs_reverse_' = r.function_pairs_reverse
        /\ shell_to_shell_' = r.shell_to_shell
        /\ function_to_function_' = r.function_to_function

\* common_init(), line 64: the constructor's own set_sieve(sieve_).
ConstructorSetSieve ==
    /\ pc = "set_sieve"
    /\ set_sieve(sieve_)
    /\ pc' = "ready"
    /\ UNCHANGED <<basis_vars, P, Q, bound_vars, csam_vars>>

\* A caller's set_sieve(tau) on the constructed object.
SetSieve ==
    /\ pc = "ready"
    /\ \E tau \in Taus : set_sieve(tau)
    /\ UNCHANGED <<basis_vars, pc, P, Q, bound_vars, csam_vars>>

\* ------------------------------------------------------------- predicates
\* mnrs_2 of shell_significant_csam(M, N, R, S), lines 374-387.
CsamEstimate(M, N, R, S) ==
    LET mn_mn == FromInt(shell_pair_values_[N * nshell_ + M])
        rs_rs == FromInt(shell_pair_values_[S * nshell_ + R])
        mm_rr == shell_pair_exchange_values_[R * nshell_ + M]
        nn_ss == shell_pair_exchange_values_[S * nshell_ + N]
        mm_ss == shell_pair_exchange_values_[S * nshell_ + M]
        nn_rr == shell_pair_exchange_values_[R * nshell_ + N]
        csam_2 == DMax(DMul(mm_rr, nn_ss), DMul(mm_ss, nn_rr))
        mnrs_2 == DMul(DMul(mn_mn, rs_rs), csam_2)
    IN  mnrs_2

\* shell_significant_csam(M, N, R, S), lines 372-390.
ShellSignificantCsam(M, N, R, S) ==
    DGeq(DAbs(CsamEstimate(M, N, R, S)), FromInt(sieve2_))

Next ==
    \/ IntegralsBegin
    \/ IntegralsIter
    \/ CsamBegin
    \/ CsamIter
    \/ ConstructorSetSieve
    \/ SetSieve

Spec == Init /\ [][Next]_vars

\* ------------------------------------------------------------- properties
Ready == pc = "ready"

Shells == 0..(nshell_ - 1)

Functions == 0..(nbf_ - 1)

\* D[M][N], F[m][n] and X[M][N].
D(M, N) == shell_pair_values_[M * nshell_ + N]

F(m, n) == function_pair_values_[m * nbf_ + n]

X(M, N) == shell_pair_exchange_values_[M * nshell_ + N]

\* The packed index of the pair (M, N), M >= N.
Pack(M, N) == (M * (M + 1)) \div 2 + N

LowerPairs(n) == {pr \in (0..(n - 1)) \X (0..(n - 1)) : pr[1] >= pr[2]}

\* reverse[pack(M, N)] is the sentinel exactly when (M, N) is not in the list,
\* and is otherwise the position of (M, N) in the list.
ReverseCorresponds(list, reverse, n) ==
    /\ DOMAIN reverse = 0..((n * (n + 1)) \div 2 - 1)
    /\ \A pr \in LowerPairs(n) :
          LET k == reverse[Pack(pr[1], pr[2])]
          IN  /\ (k = 0 - 1) <=> (pr \notin Elems(list))
              /\ k # 0 - 1 => /\ k \in 0..(Len(list) - 1)
                              /\ list[k + 1] = pr

\* C1: after construction and after any sequence of set_sieve calls, the reverse
\* maps and the pair lists correspond: for every pair (M, N), M >= N, with packed
\* index k, reverse[k] is -1 exactly when (M, N) is not in the list, and otherwise
\* list[reverse[k]] is (M, N); for shell pairs and for function pairs.
C1_ReverseMapCorrespondence ==
    Ready => /\ ReverseCorresponds(shell_pairs_, shell_pairs_reverse_, nshell_)
             /\ ReverseCorresponds(function_pairs_, function_pairs_reverse_, nbf_)

\* A list with a gap: (0,0) and (1,1) are listed at positions 0 and 1, (1,0) is not.
C1_Witness ==
    /\ Ready
    /\ nshell_ = 2
    /\ shell_pairs_ = <<(<<0, 0>>), (<<1, 1>>)>>
    /\ shell_pairs_reverse_[Pack(1, 0)] = 0 - 1
    /\ shell_pairs_reverse_[Pack(1, 1)] = 1
    /\ \E k \in DOMAIN function_pairs_reverse_ : function_pairs_reverse_[k] = 0 - 1

\* The pairs (M, N), M >= N, of an n x n matrix whose value v meets
\* v >= tau^2 / max_, for max_ > 0: v * max_ >= tau^2.
MeetsCutoff(v, tau) == max_ > 0 /\ v * max_ >= tau * tau

ShellPairsAt(tau) == {pr \in LowerPairs(nshell_) : MeetsCutoff(D(pr[1], pr[2]), tau)}

FunctionPairsAt(tau) == {pr \in LowerPairs(nbf_) : MeetsCutoff(F(pr[1], pr[2]), tau)}

\* C2: with max_ > 0, the threshold-derived state depends only on the last
\* threshold tau and the bound matrices: shell_pairs_ holds exactly the pairs
\* (M, N), M >= N, with D[M][N] >= tau^2 / max_, function_pairs_ exactly those with
\* F[mu][nu] >= tau^2 / max_, and a second set_sieve(tau) leaves the lists, the
\* reverse maps and the adjacency lists as they are.
C2_ThresholdStateDependsOnlyOnTau ==
    (Ready /\ max_ > 0) =>
        /\ Elems(shell_pairs_) = ShellPairsAt(sieve_)
        /\ Elems(function_pairs_) = FunctionPairsAt(sieve_)
        /\ SetSieveResult(sieve_) = SieveState

\* A positive threshold that keeps some shell pairs and drops others.
C2_Witness ==
    /\ Ready
    /\ max_ > 0
    /\ sieve_ > 0
    /\ shell_pairs_ # <<>>
    /\ Len(shell_pairs_) < Cardinality(LowerPairs(nshell_))
    /\ Len(function_pairs_) < Cardinality(LowerPairs(nbf_))

\* C3 as stated: for any two thresholds tau1 < tau2 applied to the same bound
\* matrices, the significant shell pairs at tau2 are a subset of those at tau1,
\* and likewise the significant function pairs.
C3_MonotonicShrink ==
    [][(Ready /\ Ready' /\ sieve_ < sieve_') =>
           /\ Elems(shell_pairs_') \subseteq Elems(shell_pairs_)
           /\ Elems(function_pairs_') \subseteq Elems(function_pairs_)]_vars

\* C3, amended: the same for any two thresholds 0 <= tau1 < tau2.
C3_MonotonicShrinkNonNegative ==
    [][(Ready /\ Ready' /\ 0 <= sieve_ /\ sieve_ < sieve_') =>
           /\ Elems(shell_pairs_') \subseteq Elems(shell_pairs_)
           /\ Elems(function_pairs_') \subseteq Elems(function_pairs_)]_vars

\* A threshold tau2 >= 1 under which a shell pair is dropped that the smaller
\* threshold tau2 - 1 >= 0 keeps.
C3_Witness ==
    /\ Ready
    /\ sieve_ >= 1
    /\ \E pr \in ShellPairsAt(sieve_ - 1) : pr \notin Elems(shell_pairs_)
    /\ \E pr \in FunctionPairsAt(sieve_ - 1) : pr \notin Elems(function_pairs_)

\* (a, b) comes before (c, d) in lexicographic order.
LexLess(x, y) == x[1] < y[1] \/ (x[1] = y[1] /\ x[2] < y[2])

StrictlyAscending(list) ==
    /\ \A i \in 1..Len(list) : list[i][1] >= list[i][2]
    /\ \A i \in 1..(Len(list) - 1) : LexLess(list[i], list[i + 1])

\* C4: after every set_sieve call, shell_pairs_ is strictly ascending in
\* lexicographic (M, N) order with M >= N in every entry; so is function_pairs_.
C4_ListsStrictlyAscending ==
    Ready => /\ StrictlyAscending(shell_pairs_)
             /\ StrictlyAscending(function_pairs_)

\* Lists of several entries, one of them with a gap in the traversal.
C4_Witness ==
    /\ Ready
    /\ Len(shell_pairs_) >= 2
    /\ Len(function_pairs_) >= 4
    /\ Len(function_pairs_) < Cardinality(LowerPairs(nbf_))

AscendingNoDuplicates(list) == \A i \in 1..(Len(list) - 1) : list[i] < list[i + 1]

\* Whether the pair of a and b, larger index first, is in the pair list.
Listed(list, a, b) == <<IMax(a, b), IMin(a, b)>> \in Elems(list)

AdjacencyComplete(lists, list, values, n) ==
    /\ DOMAIN lists = 0..(n - 1)
    /\ \A M \in 0..(n - 1) :
          /\ AscendingNoDuplicates(lists[M])
          /\ \A N \in 0..(n - 1) :
                /\ (N \in Elems(lists[M])) <=> MeetsCutoff(values[M * n + N], sieve_)
                /\ (N \in Elems(lists[M])) <=> (M \in Elems(lists[N]))
                /\ (N \in Elems(lists[M])) <=> Listed(list, M, N)

\* C5: after every set_sieve call, N is in shell_to_shell_[M] exactly when
\* D[M][N] >= tau^2 / max_ (never, when the cutoff is a NaN or an infinity), each
\* shell_to_shell_[M] is ascending without duplicates, membership is symmetric and
\* agrees with the shell-pair list; the same for function_to_function_ with F and
\* function_pairs_.
C5_AdjacencyComplete ==
    Ready => /\ AdjacencyComplete(shell_to_shell_, shell_pairs_,
                                  shell_pair_values_, nshell_)
             /\ AdjacencyComplete(function_to_function_, function_pairs_,
                                  function_pair_values_, nbf_)

\* Shell 0 has the partner 1 above it, and some shell misses a partner.
C5_Witness ==
    /\ Ready
    /\ nshell_ >= 2
    /\ 1 \in Elems(shell_to_shell_[0])
    /\ \E m \in Functions : Len(function_to_function_[m]) \in 1..(nbf_ - 1)

BoundInvariants ==
    /\ \A S \in Shells, T \in Shells :
          /\ D(S, T) = D(T, S)
          /\ 0 <= D(S, T)
          /\ D(S, T) <= max_
    /\ \E S \in Shells, T \in Shells : D(S, T) = max_
    /\ \A p \in Functions, q \in Functions : F(p, q) = D(ShellOf(p), ShellOf(q))

\* C6: at all times after construction, D is symmetric, 0 <= D[P][Q] <= max_,
\* max_ is the largest entry of D and F[p][q] = D[shell_of(p)][shell_of(q)]; and
\* set_sieve leaves the bound matrices and max_ unchanged.
C6_BoundMatrixInvariants ==
    /\ [](Ready => BoundInvariants)
    /\ [][Ready => UNCHANGED bound_vars]_vars

\* A shell of two functions whose bound differs from a bound it shares with
\* another shell, under a threshold that drops a pair.
C6_Witness ==
    /\ Ready
    /\ nshell_ = 2
    /\ nbf_ = 3
    /\ D(1, 0) > 0
    /\ D(1, 0) # D(0, 0)
    /\ D(1, 0) # D(1, 1)
    /\ Len(shell_pairs_) < Cardinality(LowerPairs(nshell_))

\* C7: with max_ = 0, construction / set_sieve fails explicitly: the object never
\* comes to hold significance lists, reverse maps and adjacency lists derived
\* from a NaN or infinite cutoff.
C7_DegenerateMaxFailsExplicitly == ~(Ready /\ max_ = 0)

\* |D[N][M] * D[S][R] * max(X[M][R] * X[N][S], X[M][S] * X[N][R])| >= tau^2, over
\* the integers: a maximum reaches a value when one of its arguments does.
CsamBound(M, N, R, S) ==
    LET reaches(x, y) ==
            /\ x.k = "fin"
            /\ y.k = "fin"
            /\ Abs(D(N, M) * D(S, R) * x.n * y.n) >= sieve_ * sieve_ * x.d * y.d
    IN  reaches(X(M, R), X(N, S)) \/ reaches(X(M, S), X(N, R))

\* C8: with CSAM enabled, shell_significant_csam(M, N, R, S) is true exactly when
\* |D[N][M] * D[S][R] * max(X[M][R] X[N][S], X[M][S] X[N][R])| >= tau^2, equality
\* included, and the verdict is the same with M and N swapped, with R and S
\* swapped, and with the pair (M, N) swapped with the pair (R, S).
C8_CsamVerdict ==
    (Ready /\ do_csam_) =>
        \A significant \in
               {{q : q \in {r \in Shells \X Shells \X Shells \X Shells :
                               ShellSignificantCsam(r[1], r[2], r[3], r[4])}}} :
            \A M \in Shells, N \in Shells, R \in Shells, S \in Shells :
                /\ <<M, N, R, S>> \in significant <=> CsamBound(M, N, R, S)
                /\ <<M, N, R, S>> \in significant <=> <<N, M, R, S>> \in significant
                /\ <<M, N, R, S>> \in significant <=> <<M, N, S, R>> \in significant
                /\ <<M, N, R, S>> \in significant <=> <<R, S, M, N>> \in significant

\* A positive threshold and an exchange bound strictly between 0 and 1, with one
\* quadruple exactly on the boundary and another one below it.
C8_Witness ==
    /\ Ready
    /\ do_csam_
    /\ sieve_ > 0
    /\ \E S \in Shells, T \in Shells : DLess(FromInt(0), X(S, T)) /\ DLess(X(S, T), FromInt(1))
    /\ \E M \in Shells, N \in Shells, R \in Shells, S \in Shells :
          /\ M # R
          /\ DAbs(CsamEstimate(M, N, R, S)) = FromInt(sieve2_)
          /\ ShellSignificantCsam(M, N, R, S)
    /\ \E M \in Shells, N \in Shells, R \in Shells, S \in Shells :
          ~ShellSignificantCsam(M, N, R, S)

\* C9: with max_ > 0, every quadruple (P, Q, R, S), P >= Q, R >= S, with
\* D[P][Q] * D[R][S] >= tau^2 has both (P, Q) and (R, S) in shell_pairs_, their
\* reverse-map entries not -1.
C9_SchwarzPrefilter ==
    (Ready /\ max_ > 0) =>
        \A pq \in LowerPairs(nshell_), rs \in LowerPairs(nshell_) :
            D(pq[1], pq[2]) * D(rs[1], rs[2]) >= sieve_ * sieve_ =>
                /\ pq \in Elems(shell_pairs_)
                /\ rs \in Elems(shell_pairs_)
                /\ shell_pairs_reverse_[Pack(pq[1], pq[2])] # 0 - 1
                /\ shell_pairs_reverse_[Pack(rs[1], rs[2])] # 0 - 1

\* A quadruple of two different pairs that passes the two-sided test although
\* one of its pairs fails it against itself, while another pair is dropped.
C9_Witness ==
    /\ Ready
    /\ max_ > 0
    /\ sieve_ > 0
    /\ \E pq \in LowerPairs(nshell_), rs \in LowerPairs(nshell_) :
          /\ pq # rs
          /\ D(pq[1], pq[2]) * D(rs[1], rs[2]) >= sieve_ * sieve_
          /\ D(pq[1], pq[2]) * D(pq[1], pq[2]) < sieve_ * sieve_
    /\ Len(shell_pairs_) < Cardinality(LowerPairs(nshell_))

CsamFinished == do_csam_ /\ pc \in {"set_sieve", "ready"}

\* C10: in csam_integrals() no function_sqrt_ entry is read before it has been
\* written; each is written exactly once, on the iteration Q = P of its own
\* shell; and on completion every X[P][Q] has been assigned and X is symmetric.
C10_SqrtWrittenBeforeRead ==
    /\ sqrt_early_reads = {}
    /\ \A f \in DOMAIN sqrt_writes :
          /\ Len(sqrt_writes[f]) <= 1
          /\ Len(sqrt_writes[f]) = 1 =>
                 sqrt_writes[f][1] = <<ShellOf(f), ShellOf(f)>>
    /\ CsamFinished =>
          /\ DOMAIN sqrt_writes = Functions
          /\ \A f \in Functions : Len(sqrt_writes[f]) = 1
          /\ exchange_writes = 0..(nshell_ * nshell_ - 1)
          /\ \A S \in Shells, T \in Shells : X(S, T) = X(T, S)

\* The builder has finished a basis of two shells: the pair (1, 0) read the
\* square roots of shell 0, written one outer iteration earlier.
C10_Witness ==
    /\ CsamFinished
    /\ nshell_ = 2
    /\ nbf_ = 3
    /\ \A f \in Functions : function_sqrt_[f] > 0
    /\ X(1, 0) # FromInt(0)

====
